---- MODULE Spec2Model ----
(***************************************************************************)
(* A model of todo-rs: the TodoList library (src/src/lib.rs) and the       *)
(* command handlers of the binary (src/src/main.rs).                       *)
(*                                                                         *)
(* Text is a sequence of one-character strings, so that parsing and        *)
(* serialisation are computed character by character as the code does.     *)
(*                                                                         *)
(* Five specifications share the variables:                                *)
(*   SpecLib      a caller of the library parses a document and makes one  *)
(*                call of a public method of TodoList;                     *)
(*   SpecSeq      a caller parses a document and applies any sequence of   *)
(*                add_item, mark_item_done and delete_items;               *)
(*   SpecListing  a caller lists a document and passes a number read off   *)
(*                the listing to get_item, mark_item_done or delete_items; *)
(*   SpecParse    one line is given to the item parser or the list parser; *)
(*   Spec         one run of the binary: a command over the list files.    *)
(***************************************************************************)
EXTENDS Integers, Sequences, FiniteSets, TLC

VARIABLES
    overflow_checks, \* build profile: TRUE = integer overflow panics (debug)
    files,           \* path -> text of the list file, or NoFile
    pc,              \* position of the caller / of the command handler
    text,            \* the document the list was parsed from
    list,            \* TodoList.list (the source list of a command)
    to_list,         \* TodoList.list of the destination list (move)
    removed_items,   \* the items delete_items returned to the handler (move)
    before,          \* `list` as it was when the last call started
    call,            \* the last call or command: [op, arg, ...]
    res              \* what the last call or command returned

vars == <<overflow_checks, files, pc, text, list, to_list, removed_items,
          before, call, res>>

-----------------------------------------------------------------------------
(* Bounds of the model *)

\* lines of a document the model starts from
MaxLines == 3
\* indices given to one batch operation
MaxBatch == 2
\* elements a list may grow to through add_item (SpecSeq)
MaxLen == 3
\* lines of a document a sequence of calls starts from (SpecSeq)
MaxSeqLines == 2
\* lines of the list file a command starts from (Spec)
MaxCmdLines == 2
\* characters of the title of a line given to the item parser (SpecParse)
MaxTitle == 2

\* item numbers a caller passes: 0, every position, and one beyond the end
ItemNumbers == 0..(MaxLines + 1)

-----------------------------------------------------------------------------
(* Values *)

Done == "Done"
Initial == "Initial"
None == "None"
\* a list file: absent, or present with its text
NoFile == [exists |-> FALSE, text |-> <<>>]
File(t) == [exists |-> TRUE, text |-> t]

TodoItem(name, state) == [name |-> name, description |-> None, state |-> state]

FileItemTodoItem(item) == [kind |-> "TodoItem", item |-> item]
FileItemString(s) == [kind |-> "String", s |-> s]

Ok(v) == [tag |-> "Ok", val |-> v]
Err(e) == [tag |-> "Err", err |-> e]
Panic == [tag |-> "Panic"]

ParseError(cause) == [kind |-> "ParseError", cause |-> cause]
InvalidItemNumber(n) == [kind |-> "InvalidItemNumber", n |-> n]
FileIOError(e) == [kind |-> "FileIOError", io |-> e]

-----------------------------------------------------------------------------
(* Text helpers (std) *)

NL == "\n"
CR == "\r"

starts_with(s, p) == Len(s) >= Len(p) /\ SubSeq(s, 1, Len(p)) = p

\* position of the first "\n" of s, 0 when there is none
FirstNL(s) ==
    IF \E i \in 1..Len(s) : s[i] = NL
    THEN CHOOSE i \in 1..Len(s) : s[i] = NL /\ \A j \in 1..(i - 1) : s[j] # NL
    ELSE 0

RECURSIVE SplitInclusive(_)
\* str::split_inclusive('\n'): every piece but possibly the last ends in "\n"
SplitInclusive(s) ==
    IF s = <<>> THEN <<>>
    ELSE LET nl == FirstNL(s) IN
         IF nl = 0 THEN <<s>>
         ELSE <<SubSeq(s, 1, nl)>> \o SplitInclusive(SubSeq(s, nl + 1, Len(s)))

\* a piece without its line ending: "\n", or "\r\n"
StripLineEnding(piece) ==
    IF piece # <<>> /\ piece[Len(piece)] = NL
    THEN LET l == SubSeq(piece, 1, Len(piece) - 1) IN
         IF l # <<>> /\ l[Len(l)] = CR THEN SubSeq(l, 1, Len(l) - 1) ELSE l
    ELSE piece

\* str::lines
Lines(s) ==
    LET pieces == SplitInclusive(s) IN
    [i \in 1..Len(pieces) |-> StripLineEnding(pieces[i])]

RECURSIVE Join(_, _)
\* [String]::join
Join(ss, sep) ==
    IF ss = <<>> THEN <<>>
    ELSE IF Len(ss) = 1 THEN ss[1]
    ELSE ss[1] \o sep \o Join(Tail(ss), sep)

-----------------------------------------------------------------------------
(* impl FromStr for TodoItemState, TodoItemState::as_markdown *)

TodoItemState_from_str(s) ==
    IF s = "x" THEN Ok(Done)
    ELSE IF s = " " THEN Ok(Initial)
    ELSE Err(ParseError("state not supported"))

TodoItemState_as_markdown(state) ==
    IF state = Done THEN "x" ELSE " "

(* impl FromStr for TodoItem *)
TodoItem_from_str(s) ==
    IF ~starts_with(s, <<"-", " ", "[">>)
    THEN Err(ParseError("should start with the check box"))
    ELSE IF Len(s) < 4 THEN Err(ParseError("no mark"))
    ELSE IF Len(s) < 5 THEN Err(ParseError("no closing bracket"))
    ELSE IF s[5] # "]" THEN Err(ParseError("expected ]"))
    ELSE IF Len(s) < 6 THEN Err(ParseError("ended unexpectedly"))
    ELSE IF s[6] # " " THEN Err(ParseError("space expected after ]"))
    ELSE LET name == SubSeq(s, 7, Len(s)) IN
         IF name = <<>> THEN Err(ParseError("name can't be empty"))
         ELSE LET state == TodoItemState_from_str(s[4]) IN
              IF state.tag = "Ok" THEN Ok(TodoItem(name, state.val))
              ELSE state

(* TodoItem::mark_done, TodoItem::is_done *)
mark_done(item) == [item EXCEPT !.state = Done]
is_done(item) == item.state = Done

-----------------------------------------------------------------------------
(* TodoList *)

\* TodoList::list_from_str: one element per line, never an error
list_from_str(s) ==
    LET lines == Lines(s) IN
    Ok([i \in 1..Len(lines) |->
          IF starts_with(lines[i], <<"-", " ", "[">>)
          THEN LET item == TodoItem_from_str(lines[i]) IN
               IF item.tag = "Ok" THEN FileItemTodoItem(item.val)
               ELSE FileItemString(lines[i])
          ELSE FileItemString(lines[i])])

\* one element as as_markdown renders it
ElementMarkdown(e) ==
    IF e.kind = "TodoItem"
    THEN <<"-", " ", "[">> \o <<TodoItemState_as_markdown(e.item.state)>>
         \o <<"]", " ">> \o e.item.name
    ELSE e.s

\* as_markdown ending every element with a newline
as_markdown_terminated(l) ==
    Join([i \in 1..Len(l) |-> ElementMarkdown(l[i]) \o <<NL>>], <<>>)

\* TodoList::as_markdown
as_markdown(l) ==
    Join([i \in 1..Len(l) |-> ElementMarkdown(l[i])], <<NL>>)

\* usize arithmetic. TLC's integers are 32 bits wide, so the model's usize is
\* narrower than the machine's; a wrapped value is beyond the length of any
\* Vec either way.
UsizeModulus == 2 ^ 30

\* `a - b` on usize: a panic when overflow checks are compiled in (debug
\* profile), a wrap-around when they are not (release profile)
usize_sub(a, b) ==
    IF a < b /\ overflow_checks THEN Panic
    ELSE Ok((a - b) % UsizeModulus)

\* Vec::get, 0-based
vec_get(l, i) == IF i < Len(l) THEN Ok(l[i + 1]) ELSE Err(None)

\* get_item counting only the TodoItem elements
get_item_by_rank(l, item_number) ==
    LET i == usize_sub(item_number, 1)
        items == SelectSeq(l, LAMBDA e : e.kind = "TodoItem")
    IN IF i.tag = "Panic" THEN Panic
       ELSE IF i.val < Len(items) THEN Ok(items[i.val + 1].item)
       ELSE Err(InvalidItemNumber(item_number))

\* TodoList::get_item
get_item(l, item_number) ==
    LET i == usize_sub(item_number, 1) IN
    IF i.tag = "Panic" THEN Panic
    ELSE LET e == vec_get(l, i.val) IN
         IF e.tag # "Ok" THEN Err(InvalidItemNumber(item_number))
         ELSE IF e.val.kind = "TodoItem" THEN Ok(e.val.item)
         ELSE Err(InvalidItemNumber(item_number))

\* TodoList::get_item_mut: the reference is the place of the item in the Vec
get_item_mut(l, item_number) ==
    LET i == usize_sub(item_number, 1) IN
    IF i.tag = "Panic" THEN Panic
    ELSE LET e == vec_get(l, i.val) IN
         IF e.tag # "Ok" THEN Err(InvalidItemNumber(item_number))
         ELSE IF e.val.kind = "TodoItem" THEN Ok(i.val + 1)
         ELSE Err(InvalidItemNumber(item_number))

\* TodoList::mark_item_done: the list after the call and what it returns
mark_item_done(l, item_number) ==
    LET item == get_item_mut(l, item_number) IN
    IF item.tag # "Ok" THEN [list |-> l, res |-> item]
    ELSE LET l2 == [l EXCEPT ![item.val].item = mark_done(@)] IN
         [list |-> l2, res |-> Ok(l2[item.val].item)]

\* TodoList::add_item
add_item(l, item_title) ==
    Append(l, FileItemTodoItem(TodoItem(item_title, Initial)))

\* TodoList::add_items
add_items(l, items) ==
    l \o [i \in 1..Len(items) |-> FileItemTodoItem(items[i])]

RECURSIVE InsertDesc(_, _)
InsertDesc(x, s) ==
    IF s = <<>> THEN <<x>>
    ELSE IF x >= Head(s) THEN <<x>> \o s
    ELSE <<Head(s)>> \o InsertDesc(x, Tail(s))

RECURSIVE SortDesc(_)
\* sort_unstable_by(|a, b| b.cmp(a)): descending
SortDesc(s) == IF s = <<>> THEN <<>> ELSE InsertDesc(Head(s), SortDesc(Tail(s)))

\* Vec::remove at a 1-based place
vec_remove(l, p) == SubSeq(l, 1, p - 1) \o SubSeq(l, p + 1, Len(l))

RECURSIVE delete_loop_unchecked(_, _, _)
\* the loop of delete_items removing whatever element the index names
delete_loop_unchecked(l, sorted_indices, removed) ==
    IF sorted_indices = <<>> THEN [list |-> l, res |-> Ok(removed)]
    ELSE LET index == Head(sorted_indices) IN
         IF index > 0 /\ index <= Len(l)
         THEN delete_loop_unchecked(vec_remove(l, index), Tail(sorted_indices),
                                    Append(removed, l[index]))
         ELSE [list |-> l, res |-> Err(InvalidItemNumber(index))]

RECURSIVE delete_loop(_, _, _)
\* the for loop of delete_items over the sorted indices
delete_loop(l, sorted_indices, removed) ==
    IF sorted_indices = <<>> THEN [list |-> l, res |-> Ok(removed)]
    ELSE LET index == Head(sorted_indices) IN
         IF index > 0 /\ index <= Len(l)
         THEN LET todo_item == get_item(l, index) IN
              IF todo_item.tag # "Ok" THEN [list |-> l, res |-> todo_item]
              ELSE delete_loop(vec_remove(l, index), Tail(sorted_indices),
                               Append(removed, todo_item.val))
         ELSE [list |-> l, res |-> Err(InvalidItemNumber(index))]

\* delete_items without the sort: the indices in the order given
delete_items_unsorted(l, item_numbers) ==
    delete_loop(l, item_numbers, <<>>)

\* TodoList::delete_items: the list after the call and what it returns
delete_items(l, item_numbers) ==
    delete_loop(l, SortDesc(item_numbers), <<>>)

\* the decimal digits of a number, as format! prints it
DigitChar(d) == <<"0", "1", "2", "3", "4", "5", "6", "7", "8", "9">>[d + 1]

RECURSIVE Digits(_)
Digits(n) ==
    IF n < 10 THEN <<DigitChar(n)>>
    ELSE Digits(n \div 10) \o <<DigitChar(n % 10)>>

\* format!("{: >3}", n): right-aligned in at least three columns
FormatNumber(n) ==
    LET d == Digits(n) IN
    IF Len(d) >= 3 THEN d ELSE [i \in 1..(3 - Len(d)) |-> " "] \o d

\* The predicates a caller passes to display_with_numbers, over (i, item) with
\* i the 0-based place of the item: "open" is the one `list` passes without
\* --all, "all" the one it passes with --all.
Predicates == {"all", "open", "done", "odd", "none"}

Predicate(p, i, item) ==
    CASE p = "all" -> TRUE
      [] p = "open" -> ~is_done(item)
      [] p = "done" -> is_done(item)
      [] p = "odd" -> i % 2 = 1
      [] p = "none" -> FALSE

\* one line of the listing: an item under its number, or a line as stored
NumberedLine(n, item) == [kind |-> "item", number |-> FormatNumber(n), item |-> item]
PlainLine(s) == [kind |-> "plain", s |-> s]

\* display_with_numbers numbering after the filter
display_with_numbers_renumbered(l, p) ==
    LET kept == SelectSeq([i \in 1..Len(l) |-> [i |-> i - 1, e |-> l[i]]],
                    LAMBDA x : IF x.e.kind = "TodoItem"
                               THEN Predicate(p, x.i, x.e.item)
                               ELSE TRUE)
    IN [k \in 1..Len(kept) |->
          IF kept[k].e.kind = "TodoItem"
          THEN NumberedLine(k, kept[k].e.item)
          ELSE PlainLine(kept[k].e.s)]

\* display_with_numbers numbering an item by its rank among the items
display_with_numbers_by_rank(l, p) ==
    LET enumerated == [i \in 1..Len(l) |-> [i |-> i - 1, e |-> l[i]]]
        kept == SelectSeq(enumerated,
                    LAMBDA x : IF x.e.kind = "TodoItem"
                               THEN Predicate(p, x.i, x.e.item)
                               ELSE TRUE)
        rank(i) == Len(SelectSeq(SubSeq(l, 1, i + 1),
                                 LAMBDA e : e.kind = "TodoItem"))
    IN [k \in 1..Len(kept) |->
          IF kept[k].e.kind = "TodoItem"
          THEN NumberedLine(rank(kept[k].i), kept[k].e.item)
          ELSE PlainLine(kept[k].e.s)]

\* TodoList::display_with_numbers: enumerate, filter, map; the lines that the
\* code joins with "\n"
display_with_numbers(l, p) ==
    LET enumerated == [i \in 1..Len(l) |-> [i |-> i - 1, e |-> l[i]]]
        kept == SelectSeq(enumerated,
                    LAMBDA x : IF x.e.kind = "TodoItem"
                               THEN Predicate(p, x.i, x.e.item)
                               ELSE TRUE)
    IN [k \in 1..Len(kept) |->
          IF kept[k].e.kind = "TodoItem"
          THEN NumberedLine(kept[k].i + 1, kept[k].e.item)
          ELSE PlainLine(kept[k].e.s)]

-----------------------------------------------------------------------------
(* Inputs *)

\* sequences over S of length at most n
SeqsUpTo(S, n) == UNION {[1..k -> S] : k \in 0..n}

\* "- [m] title"
ChecklistLine(mark, title) == <<"-", " ", "[", mark, "]", " ">> \o title

\* the well-formed checklist lines documents are made of
WellFormedLines ==
    {ChecklistLine(" ", <<"a">>), ChecklistLine("x", <<"b">>)}

\* lines that are no item: a heading, a checklist line with an unknown mark,
\* a blank line
OtherLines ==
    {<<"#">>, ChecklistLine("z", <<"c">>), <<>>}

\* the documents a list is parsed from: lines joined by "\n"
Documents ==
    {Join(ls, <<NL>>) : ls \in SeqsUpTo(WellFormedLines \cup OtherLines, MaxLines)}

\* the titles given to add
Titles == {<<"t">>, <<>>}

\* the batches of item numbers given to a batch operation
Batches == SeqsUpTo(ItemNumbers, MaxBatch)

\* the names of the lists, and config.list_path with no outside list
\* configured: main_dir/<name>.md
ListNames == {"general", "work"}
list_path(name) == <<"main_dir", name, ".md">>
Paths == {list_path(n) : n \in ListNames}

-----------------------------------------------------------------------------
(* SpecLib: a caller parses a document and makes one call of the library *)

InitLib ==
    /\ overflow_checks \in BOOLEAN
    /\ files = [p \in Paths |-> NoFile]
    /\ pc = "parsed"
    /\ text \in Documents
    /\ list = list_from_str(text).val
    /\ to_list = <<>>
    /\ removed_items = <<>>
    /\ before = list
    /\ call = [op |-> "list_from_str", arg |-> text]
    /\ res = Ok(list)

\* what a call leaves: a panic ends the caller
Returned(op, arg, l, r) ==
    /\ pc' = IF r.tag = "Panic" THEN "panicked" ELSE "returned"
    /\ before' = list
    /\ list' = l
    /\ call' = [op |-> op, arg |-> arg]
    /\ res' = r
    /\ UNCHANGED <<overflow_checks, files, text, to_list, removed_items>>

GetItem ==
    /\ pc = "parsed"
    /\ \E n \in ItemNumbers :
         Returned("get_item", n, list, get_item(list, n))

MarkItemDone ==
    /\ pc = "parsed"
    /\ \E n \in ItemNumbers :
         LET r == mark_item_done(list, n) IN
         Returned("mark_item_done", n, r.list, r.res)

AddItem ==
    /\ pc = "parsed"
    /\ \E t \in Titles :
         Returned("add_item", t, add_item(list, t), Ok(<<>>))

DeleteItems ==
    /\ pc = "parsed"
    /\ \E b \in Batches :
         LET r == delete_items(list, b) IN
         Returned("delete_items", b, r.list, r.res)

DisplayWithNumbers ==
    /\ pc = "parsed"
    /\ \E p \in Predicates :
         Returned("display_with_numbers", p, list,
                  Ok(display_with_numbers(list, p)))

AsMarkdown ==
    /\ pc = "parsed"
    /\ Returned("as_markdown", <<>>, list, Ok(as_markdown(list)))

NextLib ==
    \/ GetItem
    \/ MarkItemDone
    \/ AddItem
    \/ DeleteItems
    \/ DisplayWithNumbers
    \/ AsMarkdown

SpecLib == InitLib /\ [][NextLib]_vars

-----------------------------------------------------------------------------
(* SpecSeq: a caller parses a document and then applies any sequence of    *)
(* add_item, mark_item_done and delete_items to the list.  Only the kind   *)
(* of the last call and of its result are kept.                            *)

\* the documents of SpecSeq: an item among lines that are no item
SeqDocuments ==
    {Join(ls, <<NL>>) :
        ls \in SeqsUpTo({ChecklistLine(" ", <<"a">>)} \cup OtherLines, MaxSeqLines)}

\* the title given to add_item in SpecSeq
SeqTitles == {<<"t">>}

\* the item numbers given to a list in SpecSeq: 0, every position, and one
\* beyond the end
SeqItemNumbers(l) == 0..(Len(l) + 1)

InitSeq ==
    /\ overflow_checks \in BOOLEAN
    /\ files = [p \in Paths |-> NoFile]
    /\ pc = "parsed"
    /\ text \in SeqDocuments
    /\ list = list_from_str(text).val
    /\ to_list = <<>>
    /\ removed_items = <<>>
    /\ before = <<>>
    /\ call = [op |-> "list_from_str"]
    /\ res = [tag |-> "Ok"]

Applied(op, l, r) ==
    /\ pc' = IF r.tag = "Panic" THEN "panicked" ELSE "returned"
    /\ list' = l
    /\ call' = [op |-> op]
    /\ res' = [tag |-> r.tag]
    /\ UNCHANGED <<overflow_checks, files, text, to_list, removed_items, before>>

SeqMarkItemDone ==
    /\ pc # "panicked"
    /\ \E n \in SeqItemNumbers(list) :
         LET r == mark_item_done(list, n) IN
         Applied("mark_item_done", r.list, r.res)

SeqAddItem ==
    /\ pc # "panicked"
    /\ Len(list) < MaxLen
    /\ \E t \in SeqTitles :
         Applied("add_item", add_item(list, t), Ok(<<>>))

SeqDeleteItems ==
    /\ pc # "panicked"
    /\ \E b \in SeqsUpTo(SeqItemNumbers(list), MaxBatch) :
         LET r == delete_items(list, b) IN
         Applied("delete_items", r.list, r.res)

NextSeq ==
    \/ SeqMarkItemDone
    \/ SeqAddItem
    \/ SeqDeleteItems

SpecSeq == InitSeq /\ [][NextSeq]_vars

-----------------------------------------------------------------------------
(* SpecListing: a caller parses a document, lists it under a predicate,    *)
(* reads a number off the listing and passes it to get_item,               *)
(* mark_item_done or delete_items                                          *)

\* the value of a decimal digit, and of a number as the listing prints it:
\* the item numbers of `done` and `remove` are parsed as usize
DigitValue(c) == CHOOSE d \in 0..9 : DigitChar(d) = c

RECURSIVE ParseDigits(_, _)
ParseDigits(s, acc) ==
    IF s = <<>> THEN acc
    ELSE ParseDigits(Tail(s), 10 * acc + DigitValue(Head(s)))

ParseNumber(s) == ParseDigits(SelectSeq(s, LAMBDA c : c # " "), 0)

\* the lines of a listing that show an item
ItemLines(listing) == {k \in 1..Len(listing) : listing[k].kind = "item"}

\* the listing lines numbers are read from for one delete_items: distinct ones
LineBatches(listing) ==
    {b \in SeqsUpTo(ItemLines(listing), MaxBatch) :
        b # <<>> /\ \A i, j \in 1..Len(b) : i # j => b[i] # b[j]}

Listing ==
    /\ pc = "parsed"
    /\ \E p \in Predicates :
         /\ pc' = "listed"
         /\ call' = [op |-> "display_with_numbers", pred |-> p]
         /\ res' = Ok(display_with_numbers(list, p))
         /\ before' = list
         /\ UNCHANGED <<overflow_checks, files, text, list, to_list,
                        removed_items>>

\* what a call with the numbers read from the listing lines leaves
Followed(op, line, arg, l, r) ==
    /\ pc' = IF r.tag = "Panic" THEN "panicked" ELSE "returned"
    /\ call' = [op |-> op, pred |-> call.pred, line |-> line, arg |-> arg]
    /\ list' = l
    /\ res' = r
    /\ UNCHANGED <<overflow_checks, files, text, to_list, removed_items, before>>

FollowGetItem ==
    /\ pc = "listed"
    /\ \E k \in ItemLines(res.val) :
         LET n == ParseNumber(res.val[k].number) IN
         Followed("get_item", k, n, list, get_item(list, n))

FollowMarkItemDone ==
    /\ pc = "listed"
    /\ \E k \in ItemLines(res.val) :
         LET n == ParseNumber(res.val[k].number)
             r == mark_item_done(list, n)
         IN Followed("mark_item_done", k, n, r.list, r.res)

FollowDeleteItems ==
    /\ pc = "listed"
    /\ \E b \in LineBatches(res.val) :
         LET ns == [j \in 1..Len(b) |-> ParseNumber(res.val[b[j]].number)]
             r == delete_items(list, ns)
         IN Followed("delete_items", b, ns, r.list, r.res)

NextListing ==
    \/ Listing
    \/ FollowGetItem
    \/ FollowMarkItemDone
    \/ FollowDeleteItems

SpecListing == InitLib /\ [][NextListing]_vars

-----------------------------------------------------------------------------
(* SpecParse: one line is given to the item parser, or to the list parser *)

\* the marks and the characters of the titles of the lines parsed
ParseMarks == {" ", "x", "z"}
TitleChars == {"a", " ", "\t"}

\* the beginnings of a checklist line that stop before the title
TruncatedLines ==
    {SubSeq(ChecklistLine(" ", <<>>), 1, k) : k \in 0..5}
        \cup {<<"-", " ", "[", " ", "]", "a">>}

\* the lines parsed: a checklist line with any mark and any title, or a
\* beginning of one
ParseLines ==
    {ChecklistLine(m, t) : m \in ParseMarks, t \in SeqsUpTo(TitleChars, MaxTitle)}
        \cup TruncatedLines

InitParse ==
    /\ overflow_checks \in BOOLEAN
    /\ files = [p \in Paths |-> NoFile]
    /\ pc = "line"
    /\ text \in ParseLines
    /\ list = <<>>
    /\ to_list = <<>>
    /\ removed_items = <<>>
    /\ before = <<>>
    /\ call = [op |-> "line"]
    /\ res = [tag |-> "None"]

\* line.parse::<TodoItem>()
ParseTodoItem ==
    /\ pc = "line"
    /\ pc' = "returned"
    /\ call' = [op |-> "TodoItem::from_str"]
    /\ res' = TodoItem_from_str(text)
    /\ UNCHANGED <<overflow_checks, files, text, list, to_list, removed_items,
                   before>>

\* TodoList::list_from_str on the line
ParseList ==
    /\ pc = "line"
    /\ pc' = "returned"
    /\ call' = [op |-> "list_from_str"]
    /\ list' = list_from_str(text).val
    /\ res' = Ok(list')
    /\ UNCHANGED <<overflow_checks, files, text, to_list, removed_items, before>>

NextParse ==
    \/ ParseTodoItem
    \/ ParseList

SpecParse == InitParse /\ [][NextParse]_vars

-----------------------------------------------------------------------------
(* Spec: one run of the binary, a command over the list files *)

\* TodoList::from_file. fs::read_to_string fails when the file does not exist,
\* and may fail on a file that exists (permissions, invalid UTF-8): readable
\* is the outcome of the read on an existing file.
from_file(path, readable) ==
    IF ~files[path].exists THEN Err(FileIOError("NotFound"))
    ELSE IF ~readable THEN Err(FileIOError("Other"))
    ELSE list_from_str(files[path].text)

\* TodoList::write: fs::write succeeds (writable) and replaces the contents
\* of the file, or it fails and the file is left as it was
write(fs, path, l, writable) ==
    IF writable
    THEN [files |-> [fs EXCEPT ![path] = File(as_markdown(l))], res |-> Ok(<<>>)]
    ELSE [files |-> fs, res |-> Err(FileIOError("Other"))]

RECURSIVE mark_items_done(_, _, _)
\* Commands::Done: item_numbers.iter().map(mark_item_done).collect() stops at
\* the first error; the list keeps what the earlier calls did to it
mark_items_done(l, item_numbers, done_items) ==
    IF item_numbers = <<>> THEN [list |-> l, res |-> Ok(done_items)]
    ELSE LET r == mark_item_done(l, Head(item_numbers)) IN
         IF r.res.tag # "Ok" THEN r
         ELSE mark_items_done(r.list, Tail(item_numbers),
                              Append(done_items, r.res.val))

\* the list files the run starts from: the general list is absent or holds a
\* document, the second list is absent, empty or holds one item
CmdDocuments ==
    {Join(ls, <<NL>>) :
        ls \in SeqsUpTo(WellFormedLines \cup OtherLines, MaxCmdLines)}

\* the item numbers given to a command
CmdBatches == SeqsUpTo(0..(MaxCmdLines + 1), MaxBatch)

OtherFiles == {NoFile, File(<<>>), File(ChecklistLine("x", <<"b">>))}

Init ==
    /\ overflow_checks \in BOOLEAN
    /\ \E g \in {File(d) : d \in CmdDocuments} \cup {NoFile}, w \in OtherFiles :
          files = [p \in Paths |-> IF p = list_path("general") THEN g ELSE w]
    /\ pc = "main"
    /\ text = <<>>
    /\ list = <<>>
    /\ to_list = <<>>
    /\ removed_items = <<>>
    /\ before = <<>>
    /\ call = [op |-> "main"]
    /\ res = [tag |-> "None"]

\* the command ends: the process exits, or aborts on a panic
Exit(r) == IF r.tag = "Panic" THEN "panicked" ELSE "exit"

\* Commands::Add
CmdAdd ==
    /\ pc = "main"
    /\ \E list_name \in ListNames, title \in Titles, readable, writable \in BOOLEAN :
         LET list_path_ == list_path(list_name)
             loaded == from_file(list_path_, readable)
             \* Err(TodoError::FileIOError(_)) => TodoList::new
             l0 == IF loaded.tag = "Ok" THEN loaded.val ELSE <<>>
             l1 == add_item(l0, title)
             w == write(files, list_path_, l1, writable)
         IN /\ call' = [op |-> "add", list_name |-> list_name, arg |-> title,
                        loaded |-> loaded.tag = "Ok",
                        existed |-> files[list_path_].exists]
            /\ text' = files[list_path_].text
            /\ before' = l0
            /\ list' = l1
            /\ files' = w.files
            /\ res' = w.res
            /\ pc' = Exit(w.res)
            /\ UNCHANGED <<overflow_checks, to_list, removed_items>>

\* Commands::List
CmdList ==
    /\ pc = "main"
    /\ \E list_name \in ListNames, all, readable \in BOOLEAN :
         LET list_path_ == list_path(list_name)
             loaded == from_file(list_path_, readable)
             l0 == IF loaded.tag = "Ok" THEN loaded.val ELSE <<>>
         IN /\ call' = [op |-> "list", list_name |-> list_name, arg |-> all,
                        loaded |-> loaded.tag = "Ok"]
            /\ text' = files[list_path_].text
            /\ before' = l0
            /\ list' = l0
            /\ res' = IF loaded.tag # "Ok" THEN loaded
                      ELSE Ok(display_with_numbers(l0,
                                  IF all THEN "all" ELSE "open"))
            /\ pc' = "exit"
            /\ UNCHANGED <<overflow_checks, files, to_list, removed_items>>

\* Commands::Done
CmdDone ==
    /\ pc = "main"
    /\ \E list_name \in ListNames, item_numbers \in CmdBatches \ {<<>>},
          readable, writable \in BOOLEAN :
         LET list_path_ == list_path(list_name)
             loaded == from_file(list_path_, readable)
             l0 == IF loaded.tag = "Ok" THEN loaded.val ELSE <<>>
             marked == mark_items_done(l0, item_numbers, <<>>)
             w == write(files, list_path_, marked.list, writable)
         IN /\ call' = [op |-> "done", list_name |-> list_name,
                        arg |-> item_numbers, loaded |-> loaded.tag = "Ok"]
            /\ text' = files[list_path_].text
            /\ before' = l0
            /\ IF loaded.tag # "Ok"
               THEN list' = l0 /\ files' = files /\ res' = loaded
               ELSE IF marked.res.tag # "Ok"
               THEN list' = marked.list /\ files' = files /\ res' = marked.res
               ELSE /\ list' = marked.list
                    /\ files' = w.files
                    /\ res' = IF w.res.tag = "Ok" THEN marked.res ELSE w.res
            /\ pc' = Exit(res')
            /\ UNCHANGED <<overflow_checks, to_list, removed_items>>

\* Commands::Remove
CmdRemove ==
    /\ pc = "main"
    /\ \E list_name \in ListNames, item_numbers \in CmdBatches \ {<<>>},
          readable, writable \in BOOLEAN :
         LET list_path_ == list_path(list_name)
             loaded == from_file(list_path_, readable)
             l0 == IF loaded.tag = "Ok" THEN loaded.val ELSE <<>>
             deleted == delete_items(l0, item_numbers)
             w == write(files, list_path_, deleted.list, writable)
         IN /\ call' = [op |-> "remove", list_name |-> list_name,
                        arg |-> item_numbers, loaded |-> loaded.tag = "Ok"]
            /\ text' = files[list_path_].text
            /\ before' = l0
            /\ IF loaded.tag # "Ok"
               THEN list' = l0 /\ files' = files /\ res' = loaded
               ELSE IF deleted.res.tag # "Ok"
               THEN list' = deleted.list /\ files' = files /\ res' = deleted.res
               ELSE /\ list' = deleted.list
                    /\ files' = w.files
                    /\ res' = IF w.res.tag = "Ok" THEN deleted.res ELSE w.res
            /\ pc' = "exit"
            /\ UNCHANGED <<overflow_checks, to_list, removed_items>>

\* Commands::Move, up to the writes: both lists are read, the items deleted
\* from the source list and appended to the destination list
CmdMove ==
    /\ pc = "main"
    /\ \E list_name \in ListNames, to_list_name \in ListNames,
          item_numbers \in CmdBatches, readable, to_readable \in BOOLEAN :
         LET loaded == from_file(list_path(list_name), readable)
             to_loaded == from_file(list_path(to_list_name), to_readable)
             l0 == IF loaded.tag = "Ok" THEN loaded.val ELSE <<>>
             t0 == IF to_loaded.tag = "Ok" THEN to_loaded.val ELSE <<>>
             deleted == delete_items(l0, item_numbers)
             failed == IF loaded.tag # "Ok" THEN loaded
                       ELSE IF to_loaded.tag # "Ok" THEN to_loaded
                       ELSE deleted.res
         IN /\ call' = [op |-> "move", list_name |-> list_name,
                        to_list |-> to_list_name, arg |-> item_numbers,
                        loaded |-> loaded.tag = "Ok" /\ to_loaded.tag = "Ok",
                        to_written |-> FALSE]
            /\ text' = files[list_path(list_name)].text
            /\ before' = l0
            /\ IF failed.tag # "Ok"
               THEN /\ list' = IF loaded.tag = "Ok" /\ to_loaded.tag = "Ok"
                               THEN deleted.list ELSE l0
                    /\ to_list' = t0
                    /\ removed_items' = <<>>
                    /\ res' = failed
                    /\ pc' = "exit"
               ELSE /\ list' = deleted.list
                    /\ to_list' = add_items(t0, deleted.res.val)
                    /\ removed_items' = deleted.res.val
                    /\ res' = [tag |-> "None"]
                    /\ pc' = "move_write_to"
            /\ UNCHANGED <<overflow_checks, files>>

\* Commands::Move: to_list.write(&to_list_path)?
MoveWriteTo ==
    /\ pc = "move_write_to"
    /\ \E writable \in BOOLEAN :
         LET w == write(files, list_path(call.to_list), to_list, writable) IN
         /\ files' = w.files
         /\ IF w.res.tag = "Ok"
            THEN /\ pc' = "move_write_from"
                 /\ res' = res
                 /\ call' = [call EXCEPT !.to_written = TRUE]
            ELSE /\ pc' = "exit"
                 /\ res' = w.res
                 /\ call' = call
    /\ UNCHANGED <<overflow_checks, text, list, to_list, removed_items, before>>

\* Commands::Move: from_list.write(&list_path)?
MoveWriteFrom ==
    /\ pc = "move_write_from"
    /\ \E writable \in BOOLEAN :
         LET w == write(files, list_path(call.list_name), list, writable) IN
         /\ files' = w.files
         /\ res' = w.res
         /\ pc' = "exit"
    /\ UNCHANGED <<overflow_checks, text, list, to_list, removed_items,
                   before, call>>

Next ==
    \/ CmdAdd
    \/ CmdList
    \/ CmdDone
    \/ CmdRemove
    \/ CmdMove
    \/ MoveWriteTo
    \/ MoveWriteFrom

Spec == Init /\ [][Next]_vars

-----------------------------------------------------------------------------
(* Definitions the properties are stated with *)

\* the item numbers of a batch
Named(batch) == {batch[k] : k \in 1..Len(batch)}

\* n names a todo item of l: the element at place n is a TodoItem
NamesItem(l, n) == n \in 1..Len(l) /\ l[n].kind = "TodoItem"

\* the todo items of l, and its passthrough lines, in order
ItemsOf(l) ==
    LET es == SelectSeq(l, LAMBDA e : e.kind = "TodoItem") IN
    [k \in 1..Len(es) |-> es[k].item]
StringsOf(l) ==
    LET es == SelectSeq(l, LAMBDA e : e.kind = "String") IN
    [k \in 1..Len(es) |-> es[k].s]

\* l without the elements at the places in S
WithoutPlaces(l, S) ==
    LET F[i \in 0..Len(l)] ==
            IF i = 0 THEN <<>>
            ELSE IF i \in S THEN F[i - 1]
            ELSE Append(F[i - 1], l[i])
    IN F[Len(l)]

\* a is b with some of its elements left out
RECURSIVE IsSubsequence(_, _)
IsSubsequence(a, b) ==
    IF a = <<>> THEN TRUE
    ELSE IF b = <<>> THEN FALSE
    ELSE IF Head(a) = Head(b) THEN IsSubsequence(Tail(a), Tail(b))
    ELSE IsSubsequence(a, Tail(b))

DeleteReturned == pc = "returned" /\ call.op = "delete_items"

-----------------------------------------------------------------------------
(* C1 (SpecLib) *)

\* C1: delete is all-or-nothing: when some index of the batch is invalid (0,
\* beyond the end, or not naming a todo item), delete_items returns
\* InvalidItemNumber and the list's elements are what they were before the call.
C1_DeleteAllOrNothing ==
    (DeleteReturned /\ \E n \in Named(call.arg) : ~NamesItem(before, n))
        => /\ res.tag = "Err"
           /\ res.err.kind = "InvalidItemNumber"
           /\ list = before

-----------------------------------------------------------------------------
(* C3 (SpecLib) *)

HasDuplicate(batch) ==
    \E i, j \in 1..Len(batch) : i # j /\ batch[i] = batch[j]

\* C3: a batch with a duplicate index removes no element that was not named
\* by some index of the batch against the list before the call (and so the
\* named element at most once).
C3_DuplicateResolvedOnce ==
    (DeleteReturned /\ HasDuplicate(call.arg))
        => \E S \in SUBSET (Named(call.arg) \cap (1..Len(before))) :
              list = WithoutPlaces(before, S)

-----------------------------------------------------------------------------
(* C9 (SpecLib) *)

DistinctValid(l, batch) ==
    /\ ~HasDuplicate(batch)
    /\ \A n \in Named(batch) : NamesItem(l, n)

\* C9: for a batch of distinct valid indices delete_items returns the removed
\* items in descending order of their original index, and the list is the
\* original one without exactly the elements at those places.
C9_DeleteDescending ==
    (DeleteReturned /\ DistinctValid(before, call.arg))
        => /\ res.tag = "Ok"
           /\ Len(res.val) = Len(call.arg)
           /\ \E f \in [1..Len(call.arg) -> Named(call.arg)] :
                 /\ \A i, j \in 1..Len(call.arg) : i < j => f[i] > f[j]
                 /\ \A k \in 1..Len(call.arg) : res.val[k] = before[f[k]].item
           /\ list = WithoutPlaces(before, Named(call.arg))

\* delete([1, 3]) on a list of three items
C9_Witness ==
    /\ DeleteReturned
    /\ call.arg = <<1, 3>>
    /\ Len(before) = 3
    /\ \A n \in 1..3 : NamesItem(before, n)
    /\ res.tag = "Ok"
    /\ Len(list) = 1

-----------------------------------------------------------------------------
(* C5 (SpecLib) *)

-----------------------------------------------------------------------------
(* C6 (SpecLib) *)

\* C6: an accessor or mutation called with index 0 or with an index beyond the
\* end returns InvalidItemNumber carrying that index, never panics, and leaves
\* the list unchanged.
C6_InvalidIndexIsError ==
    (/\ pc \in {"returned", "panicked"}
     /\ call.op \in {"get_item", "mark_item_done"}
     /\ (call.arg = 0 \/ call.arg > Len(before)))
        => /\ res.tag = "Err"
           /\ res.err = InvalidItemNumber(call.arg)
           /\ list = before

-----------------------------------------------------------------------------
(* C7 (SpecLib) *)

IsPlain(x) == x.kind = "plain"

\* C7: every item display_with_numbers shows under a predicate is shown under
\* the number it has in the unfiltered listing (its place in the list), and
\* the passthrough lines are all shown whatever the predicate.
C7_NumberingStable ==
    (pc = "returned" /\ call.op = "display_with_numbers")
        => LET full == display_with_numbers(before, "all") IN
           /\ Len(full) = Len(before)
           /\ \A k \in 1..Len(before) :
                 full[k] = IF before[k].kind = "TodoItem"
                           THEN NumberedLine(k, before[k].item)
                           ELSE PlainLine(before[k].s)
           /\ IsSubsequence(res.val, full)
           /\ SelectSeq(res.val, IsPlain) = SelectSeq(full, IsPlain)

\* [A(done), B(open), C(done)] filtered to the open items shows B as item 2
C7_Witness ==
    /\ pc = "returned"
    /\ call.op = "display_with_numbers"
    /\ call.arg = "open"
    /\ Len(before) = 3
    /\ \A k \in 1..3 : before[k].kind = "TodoItem"
    /\ is_done(before[1].item) /\ ~is_done(before[2].item) /\ is_done(before[3].item)
    /\ res.val = <<[kind |-> "item", number |-> <<" ", " ", "2">>,
                    item |-> before[2].item]>>

-----------------------------------------------------------------------------
(* C8 (SpecLib) *)

\* a document of well-formed checklist lines only, joined by newlines
WellFormedDocument(t) ==
    \E ls \in SeqsUpTo(WellFormedLines, MaxLines) : t = Join(ls, <<NL>>)

\* C8: for a document of well-formed checklist lines only,
\* as_markdown(list_from_str(text)) = text.
C8_RoundTrip ==
    (pc = "returned" /\ call.op = "as_markdown" /\ WellFormedDocument(text))
        => res.val = text

\* a document of three lines, open and done, serialised again
C8_Witness ==
    /\ pc = "returned"
    /\ call.op = "as_markdown"
    /\ WellFormedDocument(text)
    /\ Len(before) = 3
    /\ \E i, j \in 1..3 : is_done(before[i].item) /\ ~is_done(before[j].item)
    /\ res.val = text

-----------------------------------------------------------------------------
(* C10 (SpecSeq) *)

\* a line of the checklist syntax: "- [", a mark x or space, "] ", a title
IsItemLine(l) ==
    /\ Len(l) >= 7
    /\ SubSeq(l, 1, 3) = <<"-", " ", "[">>
    /\ l[4] \in {"x", " "}
    /\ l[5] = "]"
    /\ l[6] = " "

NotItemLine(l) == ~IsItemLine(l)

RECURSIVE SplitAtNL(_)
\* the pieces of s between its "\n"
SplitAtNL(s) ==
    LET nl == FirstNL(s) IN
    IF nl = 0 THEN <<s>>
    ELSE <<SubSeq(s, 1, nl - 1)>> \o SplitAtNL(SubSeq(s, nl + 1, Len(s)))

\* the lines as_markdown joined
SerializedLines(l) == IF l = <<>> THEN <<>> ELSE SplitAtNL(as_markdown(l))

\* the lines of the original document that are no item
OriginalPassthrough == SelectSeq(Lines(text), NotItemLine)

\* C10: parsing stores every line that is no item as a passthrough element, and
\* after any sequence of add_item, mark_item_done and delete_items, successful
\* or failing, the serialised list holds every passthrough line of the original
\* document verbatim and in the original order.
C10_PassthroughPreserved ==
    /\ StringsOf(list) = OriginalPassthrough
    /\ SelectSeq(SerializedLines(list), NotItemLine) = OriginalPassthrough

\* a malformed checklist line and an item: an item added and marked done, the
\* original item deleted, and then a delete that failed
C10_Witness ==
    /\ pc = "returned"
    /\ call.op = "delete_items"
    /\ res.tag = "Err"
    /\ \E k \in 1..Len(OriginalPassthrough) :
          OriginalPassthrough[k] = ChecklistLine("z", <<"c">>)
    /\ Len(Lines(text)) > Len(OriginalPassthrough)
    /\ ItemsOf(list) = <<TodoItem(<<"t">>, Done)>>

-----------------------------------------------------------------------------
(* C2 (Spec) *)

\* C2: mark_done is all-or-nothing: a batch with an invalid index returns
\* InvalidItemNumber, leaves every item of the list as it was, and nothing is
\* written to the list file.
C2_MarkDoneAllOrNothing ==
    (/\ pc \in {"exit", "panicked"}
     /\ call.op = "done"
     /\ call.loaded
     /\ \E n \in Named(call.arg) : ~NamesItem(before, n))
        => /\ res.tag = "Err"
           /\ res.err.kind = "InvalidItemNumber"
           /\ list = before
           /\ files[list_path(call.list_name)] = File(text)

-----------------------------------------------------------------------------
(* C4 (Spec) *)

\* the item is in the list file at the path
PresentIn(path, item) ==
    /\ files[path].exists
    /\ \E k \in 1..Len(Lines(files[path].text)) :
          Lines(files[path].text)[k] = ElementMarkdown(FileItemTodoItem(item))

\* C4: at every step of move each moved item is in at least one of the two
\* list files, and when the write of the source list fails after the write of
\* the destination list succeeded the item is in both.
C4_MovedItemNeverLost ==
    (call.op = "move" /\ pc \in {"move_write_to", "move_write_from", "exit"})
        => \A k \in 1..Len(removed_items) :
              /\ \/ PresentIn(list_path(call.list_name), removed_items[k])
                 \/ PresentIn(list_path(call.to_list), removed_items[k])
              /\ (pc = "exit" /\ call.to_written /\ res.tag = "Err")
                    => /\ PresentIn(list_path(call.list_name), removed_items[k])
                       /\ PresentIn(list_path(call.to_list), removed_items[k])

-----------------------------------------------------------------------------
(* C11 (SpecParse) *)

\* White_Space characters of the lines parsed
IsWhitespace(c) == c \in {" ", "\t", "\r", "\n"}
NotWhitespace(c) == ~IsWhitespace(c)

\* a title is blank: empty once its whitespace is trimmed
Blank(title) == SelectSeq(title, NotWhitespace) = <<>>

\* the line is "- [m] " followed by a blank remainder
BlankChecklistLine(l) ==
    /\ Len(l) >= 6
    /\ SubSeq(l, 1, 3) = <<"-", " ", "[">>
    /\ l[5] = "]"
    /\ l[6] = " "
    /\ Blank(SubSeq(l, 7, Len(l)))

\* C11: a line is parsed into a TodoItem only if its title is non-empty after
\* trimming whitespace: a checklist line whose remainder after "- [m] " is
\* empty or whitespace-only is a parse failure and a passthrough line of the
\* list, and no parsed item has an empty name.
C11_BlankTitleIsParseFailure ==
    /\ (pc = "returned" /\ call.op = "TodoItem::from_str")
          => /\ res.tag = "Ok" => ~Blank(res.val.name)
             /\ BlankChecklistLine(text)
                   => res.tag = "Err" /\ res.err.kind = "ParseError"
    /\ (pc = "returned" /\ call.op = "list_from_str")
          => /\ \A k \in 1..Len(list) :
                   list[k].kind = "TodoItem" => ~Blank(list[k].item.name)
             /\ BlankChecklistLine(text) => list = <<FileItemString(text)>>

\* the part of C11 about the name as it is stored: never the empty string
C11_NameNeverEmpty ==
    /\ (pc = "returned" /\ call.op = "TodoItem::from_str" /\ res.tag = "Ok")
          => res.val.name # <<>>
    /\ (pc = "returned" /\ call.op = "list_from_str")
          => \A k \in 1..Len(list) :
                list[k].kind = "TodoItem" => list[k].item.name # <<>>

-----------------------------------------------------------------------------
(* C12 (Spec) *)

\* C12: add never discards existing list content: when the list file exists
\* before add, either the command fails and the file is as it was, or the file
\* written holds every element the file held, in order, followed by the one
\* new Initial item; only a file that was not found is replaced by a list of
\* the new item alone.
C12_AddKeepsContent ==
    (pc \in {"exit", "panicked"} /\ call.op = "add" /\ call.existed)
        => LET path == list_path(call.list_name)
               previous == list_from_str(text).val
               item == FileItemTodoItem(TodoItem(call.arg, Initial))
           IN \/ res.tag = "Err" /\ files[path] = File(text)
              \/ /\ res.tag = "Ok"
                 /\ list = Append(previous, item)
                 /\ files[path] = File(as_markdown(list))

-----------------------------------------------------------------------------
(* C13 (SpecListing) *)

\* the places of the elements a listing of l under p shows, line by line: every
\* passthrough line, and the items the predicate keeps
ShownPlaces(l, p) ==
    SelectSeq([i \in 1..Len(l) |-> i],
              LAMBDA i : l[i].kind = "String" \/ Predicate(p, i - 1, l[i].item))

\* the place of the element shown on a line of the listing the call followed
ShownPlace(line) == ShownPlaces(before, call.pred)[line]

\* C13: listing and mutation agree on numbers: the number display_with_numbers
\* prints in front of an item, under any predicate and with or without
\* passthrough lines, is an index that get_item, mark_item_done and
\* delete_items accept and resolve to the item shown on that line.
C13_ListingNumbersResolve ==
    /\ pc = "listed"
          => LET shown == ShownPlaces(before, call.pred) IN
             /\ Len(res.val) = Len(shown)
             /\ \A k \in ItemLines(res.val) :
                   /\ before[shown[k]].kind = "TodoItem"
                   /\ res.val[k].item = before[shown[k]].item
    /\ (pc \in {"returned", "panicked"} /\ call.op = "get_item")
          => /\ res = Ok(before[ShownPlace(call.line)].item)
             /\ list = before
    /\ (pc \in {"returned", "panicked"} /\ call.op = "mark_item_done")
          => /\ list = [before EXCEPT ![ShownPlace(call.line)].item.state = Done]
             /\ res = Ok(list[ShownPlace(call.line)].item)
    /\ (pc \in {"returned", "panicked"} /\ call.op = "delete_items")
          => LET places == SortDesc([j \in 1..Len(call.line) |->
                                        ShownPlace(call.line[j])])
             IN /\ list = WithoutPlaces(before, Named(places))
                /\ res = Ok([j \in 1..Len(places) |-> before[places[j]].item])

\* a heading, a done item and an open item listed without the done ones: the
\* open item is shown on the second line under 3, and `3` marks it done
C13_Witness ==
    /\ pc = "returned"
    /\ call.op = "mark_item_done"
    /\ call.pred = "open"
    /\ call.line = 2
    /\ call.arg = 3
    /\ Len(before) = 3
    /\ before[1].kind = "String"
    /\ before[2].kind = "TodoItem" /\ is_done(before[2].item)
    /\ before[3].kind = "TodoItem" /\ ~is_done(before[3].item)
    /\ list[3].item.state = Done
    /\ res.tag = "Ok"

====
